---- MODULE Spec2Model ----
(***************************************************************************)
(* colocgraph.py: batch plotting of tab-separated intensity profiles.      *)
(*                                                                         *)
(* The model follows one run of the program: the directory walk            *)
(* (get_txt_files), then one loop iteration of main per discovered file    *)
(* (load_txt followed by plot_df), until the loop ends or an exception     *)
(* leaves main.  A run is started either from the command line (the        *)
(* __main__ block) or by calling main directly with keyword arguments.     *)
(*                                                                         *)
(* Representation                                                          *)
(*   file name    sequence of its dot-separated segments, "s.txt" is       *)
(*                <<"s", "txt">>                                           *)
(*   path         [dir, name]: os.path.join pairs them, os.path.basename   *)
(*                projects the name                                        *)
(*   table        [isnone, columns]: the header names in file order; the   *)
(*                data of a column is identified by its 0-based position   *)
(*   order        sequence of digit characters, converted by int           *)
(*   None         NoneDF for a table, "None" for a string                  *)
(***************************************************************************)
EXTENDS Integers, Sequences, FiniteSets, TLC

VARIABLES
    pc,          \* "start", "loop", "done" (main returned), "crashed" (exception left main)
    tree,        \* the files below the input directory, in directory-walk order
    invocation,  \* how the run is started: command line or direct call of main
    args,        \* the namespace parse_args returned (ArgsNone for a direct call)
    params,      \* the parameters main received
    txt_files,   \* main: txt_files
    pos,         \* main: 1-based position of the loop in txt_files
    cwd,         \* image files written into the working directory
    figures,     \* number of pyplot figures currently open
    stdout,      \* messages printed
    history,     \* one record per loop iteration: path, table, outcome of plot_df
    exc          \* the exception that left main, "none" otherwise

vars == <<pc, tree, invocation, args, params, txt_files, pos, cwd, figures, stdout, history, exc>>

(***************************************************************************)
(* Bounds of the model.                                                    *)
(***************************************************************************)
MaxFiles == 2
MaxCols == 4
MaxDigit == 4
MaxOrderLen == 2
MaxBatchOrderLen == 1
MaxColors == 3
MaxOpts == 1

(***************************************************************************)
(* Python values.                                                          *)
(***************************************************************************)
None == "None"

NoneDF == [isnone |-> TRUE, columns |-> <<>>]

DigitChars == <<"0", "1", "2", "3", "4", "5", "6", "7", "8", "9">>

\* int( i ) for one character of a digit string
int(c) == (CHOOSE k \in 1..Len(DigitChars) : DigitChars[k] = c) - 1

\* bool( s ) for a string: only the empty string is false
PyBool(s) == s # ""

\* Python sequence indexing s[ k ] with 0-based k: negative k counts from the end
PyInRange(k, n) == -n <= k /\ k < n

PyPos(k, n) == IF k < 0 THEN k + n + 1 ELSE k + 1

Last(s) == s[Len(s)]

\* file.endswith( '.txt' )
EndsWithTxt(name) == Len(name) >= 2 /\ Last(name) = "txt"

\* os.path.join( root, file )
PathJoin(root, file) == [dir |-> root, name |-> file]

\* os.path.basename( tf )
Basename(path) == path.name

(***************************************************************************)
(* Inputs: directory trees.                                                *)
(***************************************************************************)
\* The input directory holds s.txt, t.txt and s.csv; its subdirectory holds another
\* s.txt.  A tree is any selection of these, listed in directory-walk order.
Slots == {[dir |-> "in", name |-> <<"s", "txt">>],
          [dir |-> "in", name |-> <<"t", "txt">>],
          [dir |-> "in", name |-> <<"s", "csv">>],
          [dir |-> "in/sub", name |-> <<"s", "txt">>]}

DirRank(d) == IF d = "in" THEN 1 ELSE 2

HeaderNames == <<"Distance", "A", "B", "C", "D", "E", "F", "G", "H", "I">>

Table(n) == [isnone |-> FALSE, columns |-> SubSeq(HeaderNames, 1, n)]

\* what reading a file yields: a table, or one of the two failures load_txt catches
Failures == [kind : {"notfound", "unreadable"}, table : {NoneDF}]

Contents == Failures \cup [kind : {"table"}, table : {Table(n) : n \in 1..MaxCols}]

WideContents == Failures \cup [kind : {"table"}, table : {Table(MaxCols)}]

Files(contents) == [dir : {"in", "in/sub"}, name : {sl.name : sl \in Slots}, content : contents]

\* os.walk is top-down: the root's files come before those of its subdirectory;
\* the order inside one directory is the file system's.  The content of a file
\* that is never read is immaterial and fixed.
IsWalk(t) ==
    /\ \A i \in DOMAIN t : [dir |-> t[i].dir, name |-> t[i].name] \in Slots
    /\ \A i, j \in DOMAIN t : i < j => DirRank(t[i].dir) <= DirRank(t[j].dir)
    /\ \A i, j \in DOMAIN t : i # j => <<t[i].dir, t[i].name>> # <<t[j].dir, t[j].name>>
    /\ \A i \in DOMAIN t : ~EndsWithTxt(t[i].name) => t[i].content.kind = "unreadable"

Trees(n, contents) == {t \in UNION {[1..k -> Files(contents)] : k \in 0..n} : IsWalk(t)}

\* a tree of one matching file
OneFileTrees == {<<[dir |-> "in", name |-> <<"s", "txt">>, content |-> c]>> : c \in Contents}

(***************************************************************************)
(* Inputs: invocations.                                                    *)
(***************************************************************************)
Orders(n) == UNION {[1..k -> {DigitChars[d + 1] : d \in 0..MaxDigit}] : k \in 0..n}

Palette == <<"red", "green", "blue", "cyan", "magenta", "yellow", "black">>

ColorLists == {SubSeq(Palette, 1, n) : n \in 0..MaxColors}

Recognised == {"svg", "png"}

Formats == Recognised \cup {"xyz"}

OptionNames == {"image_data_type", "order", "width", "height", "font_size",
                "legend", "x_label", "y_label"}

\* the token given on the command line for each option other than --order
Token == [image_data_type |-> "png", width |-> "7", height |-> "5", font_size |-> "8",
          legend |-> "False", x_label |-> "x", y_label |-> "y"]

NoKwargs == [colors |-> <<>>, column_order |-> <<>>, image_data_type |-> None]

NoArgv == [given |-> {}, order |-> <<>>]

CliInvocations(n) ==
    {[via |-> "cli", argv |-> [given |-> g, order |-> o], kwargs |-> NoKwargs] :
        <<g, o>> \in {go \in (SUBSET OptionNames) \X Orders(n) :
                        /\ Cardinality(go[1]) <= MaxOpts
                        /\ "order" \notin go[1] => go[2] = <<>>}}

CallInvocations(n) ==
    {[via |-> "call", argv |-> NoArgv,
      kwargs |-> [colors |-> c, column_order |-> o, image_data_type |-> f]] :
        <<c, o, f>> \in ColorLists \X Orders(n) \X Formats}

Invocations(n) == CliInvocations(n) \cup CallInvocations(n)

(***************************************************************************)
(* get_txt_files                                                           *)
(***************************************************************************)
RECURSIVE get_txt_files(_)
get_txt_files(t) ==
    IF t = <<>> THEN <<>>
    ELSE IF EndsWithTxt(Head(t).name)
         THEN <<PathJoin(Head(t).dir, Head(t).name)>> \o get_txt_files(Tail(t))
         ELSE get_txt_files(Tail(t))

(***************************************************************************)
(* load_txt                                                                *)
(***************************************************************************)
ReadFile(t, path) ==
    t[CHOOSE k \in DOMAIN t : PathJoin(t[k].dir, t[k].name) = path].content

\* [df, out]: the table (NoneDF after a failure) and the messages printed
load_txt(t, file_path) ==
    LET c == ReadFile(t, file_path)
    IN  CASE c.kind = "table" ->
                [df |-> c.table, out |-> <<>>]
          [] c.kind = "notfound" ->
                [df |-> NoneDF, out |-> <<[msg |-> "not found", path |-> file_path]>>]
          [] OTHER ->
                [df |-> NoneDF, out |-> <<[msg |-> "error while loading", path |-> file_path]>>]

(***************************************************************************)
(* plot_df                                                                 *)
(***************************************************************************)
\* column_indices = [ int( i ) for i in column_order ]
ColumnIndices(column_order) == [k \in DOMAIN column_order |-> int(column_order[k])]

\* Faulty variants of the guard below: one that also skips the last column, one that
\* lets every index through.
ColumnUsableSkipsLast(col_idx, df) == col_idx < Len(df.columns) - 1

ColumnUsableAlways(col_idx, df) == col_idx >= 0

\* if col_idx <= len( df.columns ) - 1
ColumnUsable(col_idx, df) == col_idx <= Len(df.columns) - 1

\* df.iloc[ :, j ]: [ok, v], v the 0-based position of the column whose data is taken
Iloc(df, j) ==
    IF PyInRange(j, Len(df.columns))
    THEN [ok |-> TRUE, v |-> PyPos(j, Len(df.columns)) - 1]
    ELSE [ok |-> FALSE, v |-> 0]

\* A faulty variant of the colour lookup below: it cycles through the colour list.
ColorOfCycling(colors, col_idx) ==
    IF colors = <<>>
    THEN [ok |-> FALSE, v |-> None, at |-> col_idx - 1]
    ELSE [ok |-> TRUE, v |-> colors[((col_idx - 1) % Len(colors)) + 1], at |-> col_idx - 1]

\* colors[ col_idx - 1 ]: [ok, v, at], at the index used
ColorOf(colors, col_idx) ==
    IF PyInRange(col_idx - 1, Len(colors))
    THEN [ok |-> TRUE, v |-> colors[PyPos(col_idx - 1, Len(colors))], at |-> col_idx - 1]
    ELSE [ok |-> FALSE, v |-> None, at |-> col_idx - 1]

\* df.columns[ col_idx - 1 ]: [ok, v, at]
LabelOf(df, col_idx) ==
    IF PyInRange(col_idx - 1, Len(df.columns))
    THEN [ok |-> TRUE, v |-> df.columns[PyPos(col_idx - 1, Len(df.columns))], at |-> col_idx - 1]
    ELSE [ok |-> FALSE, v |-> None, at |-> col_idx - 1]

\* The plotting loop, from position k of column_indices on, drawn being the series
\* plotted so far.  Result: the exception raised ("none" if the loop ended), the
\* position of the index it was raised at (0 if none), and the series drawn.
RECURSIVE PlotLoop(_, _, _, _, _)
PlotLoop(df, colors, column_indices, k, drawn) ==
    IF k > Len(column_indices)
    THEN [exc |-> "none", failed_at |-> 0, series |-> drawn]
    ELSE IF df.isnone
    THEN [exc |-> "AttributeError", failed_at |-> k, series |-> drawn]
    ELSE LET col_idx == column_indices[k]
             x == Iloc(df, 0)
             y == Iloc(df, col_idx)
             color == ColorOf(colors, col_idx)
             label == LabelOf(df, col_idx)
         IN  IF ColumnUsable(col_idx, df)
             THEN IF ~(x.ok /\ y.ok /\ color.ok /\ label.ok)
                  THEN [exc |-> "IndexError", failed_at |-> k, series |-> drawn]
                  ELSE PlotLoop(df, colors, column_indices, k + 1,
                                Append(drawn, [at |-> k, digit |-> col_idx,
                                               x |-> x.v, y |-> y.v,
                                               color |-> color.v, color_at |-> color.at,
                                               label |-> label.v, label_at |-> label.at]))
             ELSE PlotLoop(df, colors, column_indices, k + 1, drawn)

\* f"{ image_file_name }.{ image_data_type }"
ImageName(image_file_name, image_data_type) == image_file_name \o <<image_data_type>>

\* One call of plot_df.  opened/closed: plt.figure() and plt.close() were reached;
\* saved: plt.savefig wrote the file `image`.
plot_df(df, image_file_name, p) ==
    LET loop == PlotLoop(df, p.colors, ColumnIndices(p.column_order), 1, <<>>)
        image == [name |-> ImageName(image_file_name, p.image_data_type),
                  format |-> p.image_data_type,
                  series |-> loop.series,
                  x_label |-> p.x_label, y_label |-> p.y_label, legend |-> p.legend,
                  width |-> p.width, height |-> p.height, font_size |-> p.font_size]
    IN  IF loop.exc # "none"
        THEN [exc |-> loop.exc, failed_at |-> loop.failed_at, series |-> loop.series,
              opened |-> TRUE, closed |-> FALSE, saved |-> FALSE, image |-> image]
        ELSE IF p.image_data_type \notin Recognised
        THEN [exc |-> "ValueError", failed_at |-> 0, series |-> loop.series,
              opened |-> TRUE, closed |-> FALSE, saved |-> FALSE, image |-> image]
        ELSE [exc |-> "none", failed_at |-> 0, series |-> loop.series,
              opened |-> TRUE, closed |-> TRUE, saved |-> TRUE, image |-> image]

(***************************************************************************)
(* The command line and main                                               *)
(***************************************************************************)
ArgsNone == [image_data_type |-> None, order |-> <<>>, width |-> 0, height |-> 0,
             font_size |-> 0, legend |-> FALSE, x_label |-> None, y_label |-> None]

\* parser.parse_args(): each option converted by its type, or its default
parse_args(argv) ==
    LET given(o) == o \in argv.given
    IN  [image_data_type |-> IF given("image_data_type") THEN Token.image_data_type ELSE None,
         order     |-> IF given("order") THEN argv.order ELSE <<"3", "1", "2">>,
         width     |-> IF given("width") THEN int(Token.width) ELSE 4,
         height    |-> IF given("height") THEN int(Token.height) ELSE 2,
         font_size |-> IF given("font_size") THEN int(Token.font_size) ELSE 9,
         legend    |-> IF given("legend") THEN PyBool(Token.legend) ELSE FALSE,
         x_label   |-> IF given("x_label") THEN Token.x_label ELSE None,
         y_label   |-> IF given("y_label") THEN Token.y_label ELSE None]

\* the defaults of main's parameters
MainDefaults ==
    [image_data_type |-> "svg", width |-> 10, height |-> 6, x_label |-> None,
     y_label |-> None, font_size |-> 20, colors |-> <<"red", "green", "blue">>,
     column_order |-> <<"3", "1", "2">>, legend |-> FALSE]

\* the call of main in the __main__ block
CliParams(a) ==
    [MainDefaults EXCEPT !.width = a.width, !.height = a.height,
                         !.font_size = a.font_size, !.legend = a.legend,
                         !.column_order = a.order]

\* a direct call main( dir, colors=..., column_order=..., image_data_type=... )
CallParams(kw) ==
    [MainDefaults EXCEPT !.colors = kw.colors, !.column_order = kw.column_order,
                         !.image_data_type = kw.image_data_type]

TypeOK ==
    /\ pc \in {"start", "loop", "done", "crashed"}
    /\ figures \in Nat
    /\ pos \in 1..(Len(txt_files) + 1)

Init ==
    /\ pc = "start"
    /\ \/ tree \in Trees(MaxFiles, WideContents) /\ invocation \in Invocations(MaxBatchOrderLen)
       \/ tree \in OneFileTrees /\ invocation \in Invocations(MaxOrderLen)
    /\ args = ArgsNone
    /\ params = MainDefaults
    /\ txt_files = <<>>
    /\ pos = 1
    /\ cwd = {}
    /\ figures = 0
    /\ stdout = <<>>
    /\ history = <<>>
    /\ exc = "none"

\* __main__: parse the command line, call main, which walks the directory
Cli ==
    /\ pc = "start"
    /\ invocation.via = "cli"
    /\ args' = parse_args(invocation.argv)
    /\ params' = CliParams(parse_args(invocation.argv))
    /\ txt_files' = get_txt_files(tree)
    /\ pc' = "loop"
    /\ UNCHANGED <<tree, invocation, pos, cwd, figures, stdout, history, exc>>

\* main called directly with keyword arguments
MainCall ==
    /\ pc = "start"
    /\ invocation.via = "call"
    /\ params' = CallParams(invocation.kwargs)
    /\ txt_files' = get_txt_files(tree)
    /\ pc' = "loop"
    /\ UNCHANGED <<tree, invocation, args, pos, cwd, figures, stdout, history, exc>>

\* savefig overwrites a file of the same name
WriteImage(dir, image, src) ==
    {f \in dir : f.name # image.name} \cup {[name |-> image.name, image |-> image, src |-> src]}

\* one iteration of main's loop: load_txt, then plot_df
Iterate ==
    /\ pc = "loop"
    /\ pos <= Len(txt_files)
    /\ LET tf == txt_files[pos]
           loaded == load_txt(tree, tf)
           r == plot_df(loaded.df, Basename(tf), params)
       IN  /\ stdout' = stdout \o loaded.out
           /\ figures' = figures + (IF r.opened THEN 1 ELSE 0) - (IF r.closed THEN 1 ELSE 0)
           /\ cwd' = IF r.saved THEN WriteImage(cwd, r.image, tf) ELSE cwd
           /\ history' = Append(history, [path |-> tf, df |-> loaded.df,
                                           plotted |-> TRUE, result |-> r])
           /\ IF r.exc = "none"
              THEN pc' = "loop" /\ pos' = pos + 1 /\ exc' = exc
              ELSE pc' = "crashed" /\ pos' = pos /\ exc' = r.exc
    /\ UNCHANGED <<tree, invocation, args, params, txt_files>>

\* the loop is exhausted: main returns
Return ==
    /\ pc = "loop"
    /\ pos > Len(txt_files)
    /\ pc' = "done"
    /\ UNCHANGED <<tree, invocation, args, params, txt_files, pos, cwd, figures, stdout,
                   history, exc>>

Next == Cli \/ MainCall \/ Iterate \/ Return

Spec == Init /\ [][Next]_vars

(***************************************************************************)
(* Properties                                                              *)
(***************************************************************************)
Calls == DOMAIN history

NCols(df) == Len(df.columns)

Requested == ColumnIndices(params.column_order)

Loaded(k) == ~history[k].df.isnone

\* the positions of the order string the plotting loop of call k went through
\* without raising: all of them, or those before the one the exception was raised at
Processed(k) ==
    IF history[k].result.failed_at = 0
    THEN Len(Requested)
    ELSE history[k].result.failed_at - 1

Positions(n) == [i \in 1..n |-> i]

MaxOf(S) == CHOOSE m \in S : \A x \in S : x <= m

\* C1: a file that load_txt fails on is skipped: plot_df is not attempted for it, no
\* image is written for it, no error is raised, and every later file that loads is
\* rendered.
C1_FailedLoadIsSkipped ==
    \A k \in Calls :
        ~Loaded(k) =>
            /\ ~history[k].plotted
            /\ ~history[k].result.saved
            /\ history[k].result.exc = "none"
            /\ ~(pc = "crashed" /\ k = Len(history))
            /\ pc = "done" =>
                  \A j \in Calls : (j > k /\ Loaded(j)) => history[j].result.saved

\* C2: the image of an input file is named after the file's base name with its
\* extension replaced by the image format.
C2_ExtensionReplaced ==
    \A f \in cwd :
        f.name = SubSeq(Basename(f.src), 1, Len(Basename(f.src)) - 1) \o <<f.image.format>>

\* C3: when main has returned, there are as many distinct image files as input files
\* that were loaded successfully.
C3_OneImagePerLoadedFile ==
    pc = "done" =>
        Cardinality({f.name : f \in cwd}) = Cardinality({k \in Calls : Loaded(k)})

\* C4: every option given on the command line is the value main and the renderer use.
C4_OptionsReachRenderer ==
    invocation.via = "cli" =>
        \A k \in Calls :
            LET given(o) == o \in invocation.argv.given
                used == history[k].result.image
            IN  /\ given("image_data_type") => used.format = args.image_data_type
                /\ given("x_label") => used.x_label = args.x_label
                /\ given("y_label") => used.y_label = args.y_label
                /\ given("order") => params.column_order = args.order
                /\ given("width") => used.width = args.width
                /\ given("height") => used.height = args.height
                /\ given("font_size") => used.font_size = args.font_size
                /\ given("legend") => used.legend = args.legend

\* C5: the legend label of a series is the header name of the column whose data the
\* series plots, and its colour is the entry at position d-1 of the colour list.
C5_LabelOfPlottedColumn ==
    \A k \in Calls : \A i \in DOMAIN history[k].result.series :
        LET s == history[k].result.series[i]
        IN  /\ s.label = history[k].df.columns[s.y + 1]
            /\ s.digit >= 1 => s.color = params.colors[s.digit]

\* C6 as stated: for every table, the series drawn are the digits of the order string
\* that do not exceed the table's column count, in order, one per occurrence.
C6_DrawnUpToColumnCount ==
    \A k \in Calls :
        Loaded(k) =>
            [i \in DOMAIN history[k].result.series |-> history[k].result.series[i].at]
                = SelectSeq(Positions(Len(Requested)),
                            LAMBDA i : Requested[i] <= NCols(history[k].df))

\* C6 amended: for every table, the series drawn are the digits of the order string
\* that do not exceed the column count minus one, in left-to-right order, one per
\* occurrence, each plotting the column at the digit's position against the first
\* column; when an exception ends the loop, this holds of the digits before the one
\* it was raised at.
C6_DrawnUpToLastColumn ==
    \A k \in Calls :
        Loaded(k) =>
            LET series == history[k].result.series
            IN  /\ [i \in DOMAIN series |-> series[i].at]
                      = SelectSeq(Positions(Processed(k)),
                                  LAMBDA i : Requested[i] <= NCols(history[k].df) - 1)
                /\ \A i \in DOMAIN series :
                      /\ series[i].digit = Requested[series[i].at]
                      /\ series[i].y = series[i].digit
                      /\ series[i].x = 0

\* C6 witness: order "312" on a table of four columns was rendered as three series,
\* columns 3, 1, 2 in that order.
C6_Witness ==
    \E k \in Calls :
        /\ history[k].df = Table(4)
        /\ params.column_order = <<"3", "1", "2">>
        /\ history[k].result.saved
        /\ [i \in DOMAIN history[k].result.series |-> history[k].result.series[i].y]
              = <<3, 1, 2>>

\* C7: a digit that exceeds the table's column count draws no series and raises no
\* error; an order string of such digits alone is rendered to an image with no
\* series, whatever the colour list.
C7_WideDigitIsNoOp ==
    \A k \in Calls :
        Loaded(k) =>
            LET r == history[k].result
                wide(i) == Requested[i] > NCols(history[k].df)
            IN  /\ \A i \in DOMAIN Requested :
                      wide(i) => /\ r.failed_at # i
                                 /\ \A j \in DOMAIN r.series : r.series[j].at # i
                /\ ((\A i \in DOMAIN Requested : wide(i))
                        /\ params.image_data_type \in Recognised)
                      => /\ r.exc = "none"
                         /\ r.series = <<>>
                         /\ r.saved

\* C7 witness: a table was rendered with an empty colour list and an order string
\* whose digits all exceed its column count.
C7_Witness ==
    \E k \in Calls :
        /\ Loaded(k)
        /\ Requested # <<>>
        /\ \A i \in DOMAIN Requested : Requested[i] > NCols(history[k].df)
        /\ params.colors = <<>>
        /\ history[k].result.saved

\* C8 as stated: if the colour list is shorter than the largest index of the order
\* string, plot_df fails, writes no image, and no later file is loaded or rendered.
C8_ShortColourListFails ==
    \A k \in Calls :
        (Requested # <<>>
            /\ Len(params.colors) < MaxOf({Requested[i] : i \in DOMAIN Requested}))
          => /\ history[k].result.exc # "none"
             /\ ~history[k].result.saved
             /\ k = Len(history)
             /\ pc = "crashed"

\* C8 amended: if the colour list is shorter than some index of the order string that
\* does not exceed the table's column count minus one, plot_df fails on the colour
\* lookup, no series takes a wrapped colour, no image is written for that file, and
\* no later file is loaded or rendered.
C8_ShortColourListFailsWhenDrawn ==
    \A k \in Calls :
        (Loaded(k) /\ \E i \in DOMAIN Requested :
                         /\ Requested[i] <= NCols(history[k].df) - 1
                         /\ Requested[i] > Len(params.colors))
          => /\ history[k].result.exc = "IndexError"
             /\ ~history[k].result.saved
             /\ \A f \in cwd : f.src # history[k].path
             /\ \A j \in DOMAIN history[k].result.series :
                   history[k].result.series[j].color_at < Len(params.colors)
             /\ k = Len(history)
             /\ pc = "crashed"
             /\ exc = "IndexError"

\* C8 witness: the colour lookup failed on a loaded table while a later file was
\* still to be processed.
C8_Witness ==
    /\ pc = "crashed"
    /\ exc = "IndexError"
    /\ Len(history) < Len(txt_files)
    /\ Loaded(Len(history))
    /\ \E i \in DOMAIN Requested : Requested[i] > Len(params.colors)

\* C9: no figure opened by plot_df remains open after plot_df, however it ended.
C9_FigureReleased == figures = 0

\* C10: the positions used to look up the colour and the label of a series are never
\* negative: digit 0 takes nothing by wrap-around.
C10_NoWrapAround ==
    \A k \in Calls : \A i \in DOMAIN history[k].result.series :
        /\ history[k].result.series[i].color_at >= 0
        /\ history[k].result.series[i].label_at >= 0

====
